---- MODULE Spec2Model ----
(***************************************************************************)
(* A model of python-market-data: marketData.py and marketDataGraph.py.   *)
(*                                                                         *)
(* The program is three functions (get_historical_data, get_ticker_info,  *)
(* create_candlestick_chart) and two example drivers.  Every action below *)
(* is one whole call of one of them.  The state is what a caller or an    *)
(* observer can see of the last call: its arguments, what it returned,    *)
(* whether an exception escaped it, what it printed, what it asked of the *)
(* provider (yfinance) and of the chart library (mplfinance), what the    *)
(* clock returned to it, and the files of the working directory.          *)
(*                                                                         *)
(* yfinance and mplfinance are not part of the repository: a call into    *)
(* either one returns or raises, and the model takes both outcomes.       *)
(***************************************************************************)
EXTENDS Integers, Sequences, FiniteSets, TLC

VARIABLES
    call,       \* the function last called, the module it lives in, its arguments
    result,     \* what the call returned (None when an exception escaped)
    escaped,    \* TRUE iff an exception left the call
    console,    \* the lines the call printed
    provider,   \* the calls made into yfinance during the call, in order
    library,    \* the calls made into mplfinance (mpf.plot) during the call, in order
    clock,      \* the values dt.date.today() returned during the call, in order
    files       \* the working directory: file name -> content

vars == <<call, result, escaped, console, provider, library, clock, files>>

----------------------------------------------------------------------------
(* Bounds of the model *)

\* The longest table handed to create_candlestick_chart.
MaxRows == 2

\* The longest list of tickers handed to get_historical_data.
MaxTickers == 2

\* The most bars the provider returns for one download.
MaxBars == 2

----------------------------------------------------------------------------
(* Values *)

Symbols == {"AAPL", "MSFT"}

None == [kind |-> "None"]

Range(s) == {s[i] : i \in DOMAIN s}

Last(s) == s[Len(s)]

\* Sequences over S of length 0..n.
SeqUpTo(S, n) == UNION {[1..k -> S] : k \in 0..n}

\* A Python str argument and a Python list argument.
Str(s) == [kind |-> "str", sym |-> s, syms |-> <<>>]
List(ss) == [kind |-> "list", sym |-> "", syms |-> ss]

IsStr(t) == t.kind = "str"
IsList(t) == t.kind = "list"

----------------------------------------------------------------------------
(* Cells, rows and tables (pandas DataFrame) *)

\* A cell is a number, a string (a sequence of characters) or NaN/None.
Num(n) == [k |-> "num", n |-> n, s |-> <<>>]
Text(s) == [k |-> "str", n |-> 0, s |-> s]
NaN == [k |-> "nan", n |-> 0, s |-> <<>>]

Digits == {"0", "1", "2", "3", "4", "5", "6", "7", "8", "9"}

DigitValue(c) ==
    CASE c = "0" -> 0 [] c = "1" -> 1 [] c = "2" -> 2 [] c = "3" -> 3
      [] c = "4" -> 4 [] c = "5" -> 5 [] c = "6" -> 6 [] c = "7" -> 7
      [] c = "8" -> 8 [] c = "9" -> 9

RECURSIVE ParseDigits(_)
ParseDigits(s) ==
    IF Len(s) = 0 THEN 0
    ELSE 10 * ParseDigits(SubSeq(s, 1, Len(s) - 1)) + DigitValue(Last(s))

\* pd.to_numeric(..., errors='coerce') on one cell: a number stays, a string
\* that parses becomes its number, anything else becomes NaN.
to_numeric(c) ==
    CASE c.k = "num" -> c
      [] c.k = "str" ->
            IF Len(c.s) > 0 /\ Range(c.s) \subseteq Digits
            THEN Num(ParseDigits(c.s))
            ELSE NaN
      [] OTHER -> NaN

\* A column key: the field, and the symbol of a two-level (field, symbol)
\* column index; "" for a flat column.
Col(f, y) == [field |-> f, sym |-> y]

required_cols == <<"Open", "High", "Low", "Close", "Volume">>

\* A table: its column keys in order and its rows in index order; a row
\* is its timestamp and its cells by column key.
Table(cols, rows) == [kind |-> "table", cols |-> cols, rows |-> rows]

Mapping(keys, at) == [kind |-> "mapping", keys |-> keys, at |-> at]

\* pd.DataFrame() and {}
EmptyTable == Table(<<>>, <<>>)
EmptyMapping == Mapping({}, <<>>)

\* DataFrame.empty: any axis of length 0.
empty(t) == Len(t.rows) = 0 \/ Len(t.cols) = 0

\* data.columns.tolist() of a flat table
ColumnNames(t) == [i \in DOMAIN t.cols |-> t.cols[i].field]

\* col in data.columns
HasColumn(t, name) == \E i \in DOMAIN t.cols : t.cols[i].field = name

\* data[names] of a flat table: the named columns, in the order named.
Select(t, names) ==
    Table([i \in DOMAIN names |-> Col(names[i], "")],
          [r \in DOMAIN t.rows |->
              [Date |-> t.rows[r].Date,
               cells |-> [c \in {Col(names[i], "") : i \in DOMAIN names} |->
                             t.rows[r].cells[c]]]])

\* for col in plot_data.columns: plot_data[col] = pd.to_numeric(plot_data[col], errors='coerce')
Coerce(t) ==
    Table(t.cols,
          [r \in DOMAIN t.rows |->
              [Date |-> t.rows[r].Date,
               cells |-> [c \in DOMAIN t.rows[r].cells |-> to_numeric(t.rows[r].cells[c])]]])

HasNaN(row) == \E c \in DOMAIN row.cells : row.cells[c].k = "nan"

\* Faulty variant: dropna(how='all'): drop only the rows that are all NaN
dropna_all(t) ==
    Table(t.cols,
          SelectSeq(t.rows, LAMBDA row : \E c \in DOMAIN row.cells : row.cells[c].k # "nan"))

\* plot_data.dropna(inplace=True): drop every row holding a NaN.
dropna(t) == Table(t.cols, SelectSeq(t.rows, LAMBDA row : ~HasNaN(row)))

----------------------------------------------------------------------------
(* Console and files *)

\* Between two calls: the caller has taken the last call's result.
NoCall == [fn |-> "none", mod |-> "none"]

Line(msg, args) == [msg |-> msg, args |-> args]

title_text(ticker) == ticker \o " Candlestick Chart"

save_path(ticker) == ticker \o "_candlestick_chart.png"

FileNames == {save_path(y) : y \in Symbols}

NoFile == [title |-> "", bars |-> 0 - 1]

\* What mplfinance writes at savefig: the chart of the table it was given.
Chart(title, t) == [title |-> title, bars |-> Len(t.rows)]

\* A call into yfinance or mplfinance returns or raises.
Outcomes == {"returns", "raises"}

\* mpf.plot(plot_data, type='candle', ..., savefig=save_path), and how it ended
PlotCall(t, title, path, outcome) ==
    [fn |-> "mpf.plot", data |-> t, type |-> "candle", style |-> "charles",
     title |-> title, ylabel |-> "Price", volume |-> TRUE,
     show_nontrading |-> FALSE, savefig |-> path, outcome |-> outcome]

\* Faulty variant: an existing file is kept, not replaced
savefig_keep(fs, path, chart) == IF fs[path].title = "" THEN [fs EXCEPT ![path] = chart] ELSE fs

\* The working directory after mplfinance has written the chart at path,
\* replacing what was there.
savefig(fs, path, chart) == [fs EXCEPT ![path] = chart]

----------------------------------------------------------------------------
(* marketDataGraph.create_candlestick_chart *)

ChartCall(data, ticker) ==
    [fn |-> "create_candlestick_chart", mod |-> "marketDataGraph",
     data |-> data, ticker |-> ticker]

\* Faulty variant: any(...) in place of all(...)
has_any_required_col(data) ==
    \E i \in DOMAIN required_cols : HasColumn(data, required_cols[i])

\* all(col in data.columns for col in required_cols)
has_required_cols(data) ==
    \A i \in DOMAIN required_cols : HasColumn(data, required_cols[i])

\* The two lines printed when a required column is missing.
missing_columns_lines(data) ==
    <<Line("Error: Missing one or more required columns for plotting:", required_cols),
      Line("Available columns:", ColumnNames(data))>>

\* data[required_cols] raises KeyError unless the table has every one of them.
CanSelect(t, names) == \A i \in DOMAIN names : HasColumn(t, names[i])

\* plot_data as handed to mpf.plot
plot_data(data) == dropna(Coerce(Select(data, required_cols)))

creating_line(ticker) == Line("Creating candlestick chart for", <<ticker>>)

plot_error_line == Line("An error occurred while plotting:", <<>>)

create_candlestick_chart(data, ticker) ==
    /\ call' = ChartCall(data, ticker)
    /\ result' = None
    /\ provider' = <<>>
    /\ clock' = <<>>
    /\ IF data.kind # "table"
       THEN \* data.empty, outside the try: AttributeError
            /\ escaped' = TRUE
            /\ console' = <<>>
            /\ library' = <<>>
            /\ UNCHANGED files
       ELSE IF empty(data)
       THEN /\ escaped' = FALSE
            /\ console' = <<Line("No data to plot.", <<>>)>>
            /\ library' = <<>>
            /\ UNCHANGED files
       ELSE IF ~has_required_cols(data)
       THEN /\ escaped' = FALSE
            /\ console' = <<creating_line(ticker)>> \o missing_columns_lines(data)
            /\ library' = <<>>
            /\ UNCHANGED files
       ELSE IF ~CanSelect(data, required_cols)
       THEN \* KeyError inside the try
            /\ escaped' = FALSE
            /\ console' = <<creating_line(ticker), plot_error_line>>
            /\ library' = <<>>
            /\ UNCHANGED files
       ELSE \E outcome \in Outcomes :
            /\ escaped' = FALSE
            /\ library' = <<PlotCall(plot_data(data), title_text(ticker),
                                     save_path(ticker), outcome)>>
            /\ IF outcome = "returns"
               THEN /\ files' = savefig(files, save_path(ticker),
                                        Chart(title_text(ticker), plot_data(data)))
                    /\ console' = <<creating_line(ticker),
                                    Line("Chart saved as", <<save_path(ticker)>>)>>
               ELSE /\ UNCHANGED files
                    /\ console' = <<creating_line(ticker), plot_error_line>>

----------------------------------------------------------------------------
(* The tables a caller hands to create_candlestick_chart *)

FlatKeys(names) == {Col(names[i], "") : i \in DOMAIN names}

\* The column order yfinance gives a single-symbol download.
provider_cols == <<"Adj Close", "Close", "High", "Low", "Open", "Volume">>

\* What a cell holds besides a plain number: a numeric string, a string
\* that is no number, a missing value.
Defects == {Text(<<"7">>), Text(<<"x">>), NaN}

\* The cells of one row over provider_cols: every cell a number, or one
\* required cell defective, or every required cell missing.
RowCells ==
    LET K == FlatKeys(provider_cols)
        R == FlatKeys(required_cols)
    IN  {[c \in K |-> Num(1)]}
        \cup {[c \in K |-> IF c = b THEN d ELSE Num(1)] : b \in R, d \in Defects}
        \cup {[c \in K |-> IF c \in R THEN NaN ELSE Num(1)]}

\* Rows are indexed by their timestamps 1, 2, ... in order.
Dated(cs) == [i \in DOMAIN cs |-> [Date |-> i, cells |-> cs[i]]]

\* The rows of a table kept to the columns the table has.
Project(names, rows) ==
    [r \in DOMAIN rows |->
        [Date |-> rows[r].Date,
         cells |-> [c \in FlatKeys(names) |-> rows[r].cells[c]]]]

FlatTable(names, cs) ==
    Table([i \in DOMAIN names |-> Col(names[i], "")], Project(names, Dated(cs)))

\* A sequence without its i-th element.
Without(s, i) == [j \in 1..(Len(s) - 1) |-> IF j < i THEN s[j] ELSE s[j + 1]]

\* Column lists: the required columns, the provider's, and each of them
\* lacking one required column.
ColumnLists ==
    {required_cols, provider_cols}
    \cup {Without(required_cols, i) : i \in DOMAIN required_cols}

ChartTables ==
    {FlatTable(required_cols, cs) : cs \in SeqUpTo(RowCells, MaxRows)}
    \cup {FlatTable(names, cs) :
            names \in ColumnLists \ {required_cols},
            cs \in SeqUpTo({c \in RowCells : \A k \in DOMAIN c : c[k].k = "num" \/ k.field = "Close"}, MaxRows)}

\* What another component can hand over: a table, pd.DataFrame(), {}, None.
ChartInputs == ChartTables \cup {EmptyTable, EmptyMapping, None}

----------------------------------------------------------------------------
(* Dates (datetime.date, datetime.timedelta, strftime) *)

Date(y, m, d) == [y |-> y, m |-> m, d |-> d]

IsLeap(y) == (y % 4 = 0 /\ y % 100 # 0) \/ y % 400 = 0

DaysInMonth(y, m) ==
    CASE m \in {4, 6, 9, 11} -> 30
      [] m = 2 -> IF IsLeap(y) THEN 29 ELSE 28
      [] OTHER -> 31

\* The days before 1 January of year y, counting from 0001-01-01.
DaysBeforeYear(y) ==
    (y - 1) * 365 + ((y - 1) \div 4) - ((y - 1) \div 100) + ((y - 1) \div 400)

RECURSIVE DaysBeforeMonth(_, _)
DaysBeforeMonth(y, m) ==
    IF m = 1 THEN 0 ELSE DaysBeforeMonth(y, m - 1) + DaysInMonth(y, m - 1)

\* date.toordinal()
toordinal(dt) == DaysBeforeYear(dt.y) + DaysBeforeMonth(dt.y, dt.m) + dt.d

RECURSIVE YearOf(_, _)
YearOf(n, y) == IF n > DaysBeforeYear(y + 1) THEN YearOf(n, y + 1) ELSE y

RECURSIVE MonthOf(_, _, _)
MonthOf(y, r, m) ==
    IF r > DaysBeforeMonth(y, m) + DaysInMonth(y, m) THEN MonthOf(y, r, m + 1) ELSE m

\* date.fromordinal(n)
fromordinal(n) ==
    LET y == YearOf(n, (n \div 366) + 1)
        r == n - DaysBeforeYear(y)
        m == MonthOf(y, r, 1)
    IN  Date(y, m, r - DaysBeforeMonth(y, m))

\* date - dt.timedelta(days=k)
MinusDays(dt, k) == fromordinal(toordinal(dt) - k)

DigitChar(d) == <<"0", "1", "2", "3", "4", "5", "6", "7", "8", "9">>[d + 1]

\* n in decimal, zero-padded to w characters
RECURSIVE Decimal(_, _)
Decimal(n, w) ==
    IF w = 0 THEN <<>> ELSE Decimal(n \div 10, w - 1) \o <<DigitChar(n % 10)>>

\* date.strftime('%Y-%m-%d'): the characters of the string
strftime(dt) ==
    Decimal(dt.y, 4) \o <<"-">> \o Decimal(dt.m, 2) \o <<"-">> \o Decimal(dt.d, 2)

\* A date argument: a Python str (its characters), or None.
DateStr(chars) == [kind |-> "str", s |-> chars]

\* Faulty variant: the same day of the year before, instead of 365 days before
default_start_year_ago(start_date, today) ==
    IF start_date.kind = "None"
    THEN DateStr(strftime(Date(today.y - 1, today.m, today.d)))
    ELSE start_date

\* if start_date is None: start_date = (dt.date.today() - dt.timedelta(days=365)).strftime('%Y-%m-%d')
default_start(start_date, today) ==
    IF start_date.kind = "None"
    THEN DateStr(strftime(MinusDays(today, 365)))
    ELSE start_date

\* if end_date is None: end_date = dt.date.today().strftime('%Y-%m-%d')
default_end(end_date, today) ==
    IF end_date.kind = "None" THEN DateStr(strftime(today)) ELSE end_date

\* The values dt.date.today() returns during one call: one read for each
\* date left out, the second on the same day or, past midnight, the next.
ClockReads(start_date, end_date, today, later) ==
    (IF start_date.kind = "None" THEN <<today>> ELSE <<>>)
    \o (IF end_date.kind = "None" THEN <<later>> ELSE <<>>)

\* The interval parameter: interval='1d' unless the caller passes one.
Omitted == [kind |-> "omitted", s |-> ""]
Given(v) == [kind |-> "str", s |-> v]
bind_interval(arg) == IF arg.kind = "omitted" THEN "1d" ELSE arg.s

----------------------------------------------------------------------------
(* The provider: yf.download *)

\* yf.download(tickers, start=start_date, end=end_date, interval=interval), how it
\* ended and what it returned
DownloadCall(tickers, start, end, interval, outcome, data) ==
    [fn |-> "yf.download", tickers |-> tickers, start |-> start, end |-> end,
     interval |-> interval, outcome |-> outcome,
     returned |-> IF outcome = "returns" THEN data ELSE None]

\* A sequence without its repetitions, first occurrences kept.
RECURSIVE Unique(_)
Unique(s) ==
    IF Len(s) = 0 THEN <<>>
    ELSE LET u == Unique(SubSeq(s, 1, Len(s) - 1))
         IN  IF Last(s) \in Range(u) THEN u ELSE Append(u, Last(s))

\* The columns of a download: the provider's fields for a str, and for a
\* list a two-level (field, symbol) index over the symbols asked for.
DownloadCols(tickers) ==
    IF IsStr(tickers)
    THEN [i \in DOMAIN provider_cols |-> Col(provider_cols[i], "")]
    ELSE LET u == Unique(tickers.syms)
             k == Len(u)
         IN  [i \in 1..(Len(provider_cols) * k) |->
                Col(provider_cols[((i - 1) \div k) + 1], u[((i - 1) % k) + 1])]

\* A download of n bars; the symbol gap (if any) has no data on the last one.
DownloadTable(tickers, n, gap) ==
    LET cols == DownloadCols(tickers)
    IN  Table(cols,
              [i \in 1..n |->
                 [Date |-> i,
                  cells |-> [c \in Range(cols) |->
                               IF i = n /\ c.sym = gap /\ gap # "" THEN NaN ELSE Num(i)]]])

\* What yf.download can return for tickers.
Downloads(tickers) ==
    {DownloadTable(tickers, n, gap) :
        n \in 0..MaxBars,
        gap \in {""} \cup (IF IsList(tickers) THEN Range(tickers.syms) ELSE {})}

\* data.xs(ticker, axis=1, level=1) raises KeyError when no column is keyed by ticker.
xs_raises(data, ticker) == ~ \E i \in DOMAIN data.cols : data.cols[i].sym = ticker

\* Faulty variant: the cross-section without the rows the symbol has no data on
xs_dropna(data, ticker) ==
    LET picked == SelectSeq(data.cols, LAMBDA c : c.sym = ticker)
        kept == SelectSeq(data.rows,
                          LAMBDA row : \A i \in DOMAIN picked : row.cells[picked[i]].k # "nan")
    IN  Table([i \in DOMAIN picked |-> Col(picked[i].field, "")],
              [r \in DOMAIN kept |->
                 [Date |-> kept[r].Date,
                  cells |-> [c \in {Col(picked[i].field, "") : i \in DOMAIN picked} |->
                               kept[r].cells[Col(c.field, ticker)]]]])

\* data.xs(ticker, axis=1, level=1): the columns keyed by ticker at level 1,
\* that level dropped, every row kept.
xs(data, ticker) ==
    LET picked == SelectSeq(data.cols, LAMBDA c : c.sym = ticker)
    IN  Table([i \in DOMAIN picked |-> Col(picked[i].field, "")],
              [r \in DOMAIN data.rows |->
                 [Date |-> data.rows[r].Date,
                  cells |-> [c \in {Col(picked[i].field, "") : i \in DOMAIN picked} |->
                               data.rows[r].cells[Col(c.field, ticker)]]]])

----------------------------------------------------------------------------
(* get_historical_data *)

FetchCall(mod, tickers, start_date, end_date, interval) ==
    [fn |-> "get_historical_data", mod |-> mod, tickers |-> tickers,
     start_date |-> start_date, end_date |-> end_date, interval |-> interval]

downloading_line(tickers, start, end) ==
    Line("Downloading historical data for", <<tickers, start, end>>)

no_data_line == Line("No data found. Please check the ticker symbol(s) or date range.", <<>>)

success_line == Line("Data downloaded successfully.", <<>>)

error_line == Line("An error occurred:", <<>>)

\* marketData.py, except: return pd.DataFrame()
simple_on_error(tickers) == EmptyTable

\* marketDataGraph.py: return pd.DataFrame() if isinstance(tickers, str) else {}
graph_empty_result(tickers) == IF IsStr(tickers) THEN EmptyTable ELSE EmptyMapping

\* marketDataGraph.py: isinstance(tickers, list) and len(tickers) > 1
wants_split(tickers) == IsList(tickers) /\ Len(tickers.syms) > 1

\* marketDataGraph.py: {ticker: data.xs(ticker, axis=1, level=1) for ticker in tickers}
data_dict(tickers, data) ==
    Mapping(Range(tickers.syms), [t \in Range(tickers.syms) |-> xs(data, t)])

\* What the call returns and what it prints after the "Downloading" line,
\* given how yf.download ended: <<result, lines>>.
simple_after_download(tickers, outcome, data) ==
    IF outcome = "raises" THEN <<simple_on_error(tickers), <<error_line>>>>
    ELSE IF empty(data) THEN <<data, <<no_data_line>>>>
    ELSE <<data, <<success_line>>>>

graph_after_download(tickers, outcome, data) ==
    IF outcome = "raises" THEN <<graph_empty_result(tickers), <<error_line>>>>
    ELSE IF empty(data) THEN <<graph_empty_result(tickers), <<no_data_line>>>>
    ELSE IF wants_split(tickers)
    THEN IF \E t \in Range(tickers.syms) : xs_raises(data, t)
         THEN <<graph_empty_result(tickers), <<success_line, error_line>>>>
         ELSE <<data_dict(tickers, data), <<success_line>>>>
    ELSE <<data, <<success_line>>>>

after_download(mod, tickers, outcome, data) ==
    IF mod = "marketData"
    THEN simple_after_download(tickers, outcome, data)
    ELSE graph_after_download(tickers, outcome, data)

\* Faulty variant: a second yf.download after the first
download_calls_retry(tickers, start, end, interval, outcome, data) ==
    <<DownloadCall(tickers, start, end, interval, outcome, data),
      DownloadCall(tickers, start, end, interval, outcome, data)>>

\* The calls the function makes into the provider: one yf.download, no second try.
download_calls(tickers, start, end, interval, outcome, data) ==
    <<DownloadCall(tickers, start, end, interval, outcome, data)>>

get_historical_data(mod, tickers, start_date, end_date, interval, today, later) ==
    LET start == default_start(start_date, today)
        end == default_end(end_date, later)
    IN  \E outcome \in Outcomes, data \in Downloads(tickers) :
        LET after == after_download(mod, tickers, outcome, data)
        IN  /\ call' = FetchCall(mod, tickers, start_date, end_date, interval)
            /\ clock' = ClockReads(start_date, end_date, today, later)
            /\ provider' = download_calls(tickers, start, end, bind_interval(interval),
                                          outcome, data)
            /\ result' = after[1]
            /\ console' = <<downloading_line(tickers, start, end)>> \o after[2]
            /\ escaped' = FALSE
            /\ library' = <<>>
            /\ UNCHANGED files

----------------------------------------------------------------------------
(* get_ticker_info, and the driver of marketData.py that reads the metadata *)

\* yf.Ticker(ticker), and how it ended
TickerCall(ticker, outcome) == [fn |-> "yf.Ticker", ticker |-> ticker, outcome |-> outcome]

\* ticker_obj.info, and how it ended
InfoCall(ticker, outcome) == [fn |-> "Ticker.info", ticker |-> ticker, outcome |-> outcome]

\* A yf.Ticker object
Handle(ticker) == [kind |-> "Ticker", ticker |-> ticker]

fetching_line(ticker) == Line("Fetching information for ticker:", <<ticker>>)

\* What get_ticker_info returns, given how yf.Ticker ended.
ticker_obj(ticker, outcome) == IF outcome = "returns" THEN Handle(ticker) ELSE None

ticker_info_lines(ticker, outcome) ==
    IF outcome = "returns" THEN <<fetching_line(ticker)>>
    ELSE <<fetching_line(ticker), error_line>>

get_ticker_info(mod, ticker) ==
    \E outcome \in Outcomes :
        /\ call' = [fn |-> "get_ticker_info", mod |-> mod, ticker |-> ticker]
        /\ provider' = <<TickerCall(ticker, outcome)>>
        /\ result' = ticker_obj(ticker, outcome)
        /\ console' = ticker_info_lines(ticker, outcome)
        /\ escaped' = FALSE
        /\ clock' = <<>>
        /\ library' = <<>>
        /\ UNCHANGED files

\* The fields the driver reads, with the label it prints each under.
info_fields == <<"longName", "sector", "currentPrice", "marketCap", "dividendRate">>

info_labels == <<"Company Name:", "Sector:", "Current Price:", "Market Cap:", "Dividend Rate:">>

\* The metadata the provider can return: any of the fields may be absent.
InfoMaps == {[f \in S |-> Num(1)] : S \in SUBSET Range(info_fields)}

\* info.get(key): None for an absent key
info_get(info, key) == IF key \in DOMAIN info THEN info[key] ELSE None

\* marketData.py, Example 3: tesla_ticker = get_ticker_info('TSLA'), and if
\* tesla_ticker: info = tesla_ticker.info and the five reads.
main_ticker_info ==
    \E made \in Outcomes, read \in Outcomes, info \in InfoMaps :
        LET tesla_ticker == ticker_obj("TSLA", made)
        IN  /\ call' = [fn |-> "__main__", mod |-> "marketData", example |-> 3]
            /\ result' = None
            /\ clock' = <<>>
            /\ library' = <<>>
            /\ UNCHANGED files
            /\ IF tesla_ticker.kind = "None"
               THEN /\ provider' = <<TickerCall("TSLA", made)>>
                    /\ console' = ticker_info_lines("TSLA", made)
                    /\ escaped' = FALSE
               ELSE /\ provider' = <<TickerCall("TSLA", made), InfoCall("TSLA", read)>>
                    /\ escaped' = (read = "raises")
                    /\ console' =
                         ticker_info_lines("TSLA", made)
                         \o <<Line("--- Tesla Company Info ---", <<>>)>>
                         \o (IF read = "raises" THEN <<>>
                             ELSE [i \in DOMAIN info_fields |->
                                     Line(info_labels[i], <<info_get(info, info_fields[i])>>)])

----------------------------------------------------------------------------
(* What the callers pass *)

Modules == {"marketData", "marketDataGraph"}

TickerArgs ==
    {Str(y) : y \in Symbols} \cup {List(ss) : ss \in SeqUpTo(Symbols, MaxTickers)}

\* '2023-01-01' and '2024-01-01', as the drivers pass them
StartArgs == {None, DateStr(<<"2", "0", "2", "3", "-", "0", "1", "-", "0", "1">>)}

EndArgs == {None, DateStr(<<"2", "0", "2", "4", "-", "0", "1", "-", "0", "1">>)}

IntervalArgs == {Omitted, Given("1mo")}

\* The days a call is made on: the leap day, a year's last day, an ordinary day.
Todays == {Date(2024, 2, 29), Date(2024, 12, 31), Date(2026, 11, 2)}

\* The day of the second clock read: the same day or the next.
Laters(today) == {today, fromordinal(toordinal(today) + 1)}

----------------------------------------------------------------------------

Init ==
    /\ call = NoCall
    /\ result = None
    /\ escaped = FALSE
    /\ console = <<>>
    /\ provider = <<>>
    /\ library = <<>>
    /\ clock = <<>>
    /\ files = [f \in FileNames |-> NoFile]

\* Each call starts when the caller holds no pending result (call = NoCall).
CreateCandlestickChart ==
    /\ call = NoCall
    /\ \E data \in ChartInputs, ticker \in Symbols :
          create_candlestick_chart(data, ticker)

GetHistoricalData ==
    /\ call = NoCall
    /\ \E mod \in Modules, tickers \in TickerArgs, start_date \in StartArgs,
          end_date \in EndArgs, interval \in IntervalArgs, today \in Todays :
          \E later \in Laters(today) :
              get_historical_data(mod, tickers, start_date, end_date, interval, today, later)

GetTickerInfo ==
    /\ call = NoCall
    /\ \E mod \in Modules, ticker \in Symbols : get_ticker_info(mod, ticker)

MainTickerInfo ==
    /\ call = NoCall
    /\ main_ticker_info

\* The caller goes on to its next statement; the files stay.
Continue ==
    /\ call # NoCall
    /\ call' = NoCall
    /\ result' = None
    /\ escaped' = FALSE
    /\ console' = <<>>
    /\ provider' = <<>>
    /\ library' = <<>>
    /\ clock' = <<>>
    /\ UNCHANGED files

Next ==
    \/ CreateCandlestickChart
    \/ GetHistoricalData
    \/ GetTickerInfo
    \/ MainTickerInfo
    \/ Continue

Spec == Init /\ [][Next]_vars

\* The two flows share no state.  The fetcher and the metadata lookup alone:
NextFetch ==
    \/ GetHistoricalData
    \/ GetTickerInfo
    \/ MainTickerInfo
    \/ Continue

SpecFetch == Init /\ [][NextFetch]_vars

\* The chart renderer alone:
NextChart ==
    \/ CreateCandlestickChart
    \/ Continue

SpecChart == Init /\ [][NextChart]_vars

----------------------------------------------------------------------------
(* Properties of get_historical_data and get_ticker_info *)

IsFetch == call.fn = "get_historical_data"

IsGraphFetch == IsFetch /\ call.mod = "marketDataGraph"

DownloadRaised == \E i \in DOMAIN provider : provider[i].outcome = "raises"

IsEmptyTable(r) == r.kind = "table" /\ Len(r.rows) = 0

IsEmptyMapping(r) == r.kind = "mapping" /\ r.keys = {}

\* C1: when yf.download raises, get_historical_data (either file) returns
\* normally an empty table or an empty mapping, and has asked the provider
\* exactly once.
C1_ProviderErrorYieldsEmpty ==
    (IsFetch /\ DownloadRaised) =>
        /\ ~escaped
        /\ IsEmptyTable(result) \/ IsEmptyMapping(result)
        /\ Len(provider) = 1

C1_Witness ==
    /\ IsGraphFetch
    /\ DownloadRaised
    /\ IsList(call.tickers)
    /\ IsEmptyMapping(result)

\* C5: a list of more than one symbol whose download is not empty comes
\* back as a mapping keyed by exactly the requested symbols, each table
\* with as many rows as the combined table.
C5_SplitPerSymbol ==
    (/\ IsGraphFetch
     /\ IsList(call.tickers)
     /\ Len(call.tickers.syms) > 1
     /\ ~DownloadRaised
     /\ Len(provider[1].returned.rows) > 0)
    =>
        /\ result.kind = "mapping"
        /\ result.keys = Range(call.tickers.syms)
        /\ \A y \in result.keys :
              /\ result.at[y].kind = "table"
              /\ Len(result.at[y].rows) = Len(provider[1].returned.rows)

C5_Witness ==
    /\ IsGraphFetch
    /\ IsList(call.tickers)
    /\ call.tickers.syms = <<"AAPL", "MSFT">>
    /\ result.kind = "mapping"
    /\ "MSFT" \in result.keys
    /\ Len(result.at["MSFT"].rows) = 2
    /\ \E c \in DOMAIN result.at["MSFT"].rows[2].cells :
          result.at["MSFT"].rows[2].cells[c].k = "nan"

\* The date a 'YYYY-MM-DD' string names.
DateOf(chars) ==
    Date(ParseDigits(SubSeq(chars, 1, 4)), ParseDigits(SubSeq(chars, 6, 7)),
         ParseDigits(SubSeq(chars, 9, 10)))

IsIsoDate(chars) ==
    /\ Len(chars) = 10
    /\ chars[5] = "-" /\ chars[8] = "-"
    /\ \A i \in {1, 2, 3, 4, 6, 7, 9, 10} : chars[i] \in Digits

\* C9: the request carries start = today - 365 days when no start date is
\* given and end = today when no end date is given, each independently of
\* the other; a date that is given goes through unchanged; the interval
\* is '1d' unless one is given.
C9_RequestDefaults ==
    IsFetch =>
        /\ Len(provider) >= 1
        /\ \A i \in DOMAIN provider :
              /\ provider[i].tickers = call.tickers
              /\ IF call.start_date.kind = "None"
                 THEN /\ IsIsoDate(provider[i].start.s)
                      /\ toordinal(DateOf(provider[i].start.s)) + 365 = toordinal(clock[1])
                 ELSE provider[i].start = call.start_date
              /\ IF call.end_date.kind = "None"
                 THEN /\ IsIsoDate(provider[i].end.s)
                      /\ DateOf(provider[i].end.s) = Last(clock)
                 ELSE provider[i].end = call.end_date
              /\ IF call.interval.kind = "omitted"
                 THEN provider[i].interval = "1d"
                 ELSE provider[i].interval = call.interval.s

C9_Witness ==
    /\ IsFetch
    /\ call.start_date.kind = "None"
    /\ call.end_date.kind = "str"
    /\ call.interval.kind = "omitted"
    /\ clock = <<Date(2024, 12, 31)>>
    /\ provider[1].start.s = <<"2", "0", "2", "4", "-", "0", "1", "-", "0", "1">>

\* C10 (the claim as stated): in marketDataGraph the kind of the result
\* depends on tickers alone.  The provider-error outcome gives a table
\* for a str and a mapping for a list, so every outcome must.
C10_KindByTickers ==
    IsGraphFetch =>
        result.kind = (IF IsStr(call.tickers) THEN "table" ELSE "mapping")

\* C8 (the claim as stated): get_ticker_info returns None exactly when the
\* provider raised, and the driver's reads of the metadata of a handle
\* that is not None never raise.
C8_NullHandleOnProviderError ==
    /\ call.fn = "get_ticker_info" =>
          /\ ~escaped
          /\ (result.kind = "None") <=> (\E i \in DOMAIN provider : provider[i].outcome = "raises")
    /\ (call.fn = "__main__" /\ call.mod = "marketData") => ~escaped

----------------------------------------------------------------------------
(* Properties of create_candlestick_chart *)

IsChart == call.fn = "create_candlestick_chart"

IsChartOfTable == IsChart /\ call.data.kind = "table"

RequiredNames == Range(required_cols)

\* The required columns the table lacks, and whether it has them all.
MissingNames(t) == {f \in RequiredNames : ~ \E i \in DOMAIN t.cols : t.cols[i].field = f}

HasAllFive(t) == MissingNames(t) = {}

\* A cell that holds a number: a number, or a string of digits.
NumericCell(c) ==
    \/ c.k = "num"
    \/ c.k = "str" /\ Len(c.s) > 0 /\ \A i \in DOMAIN c.s : c.s[i] \in Digits

\* A row whose five required values are all numeric.
ValidRow(row) == \A f \in RequiredNames : NumericCell(row.cells[Col(f, "")])

ValidRows(t) == {r \in DOMAIN t.rows : ValidRow(t.rows[r])}

\* The files mplfinance wrote during the call, in order.
Writes(lib) ==
    LET done == SelectSeq(lib, LAMBDA c : c.outcome = "returns")
    IN  [i \in DOMAIN done |-> done[i].savefig]

Printed(msg) == \E i \in DOMAIN console : console[i].msg = msg

\* The call came back without the "Chart saved as" line.
Aborted == IsChart /\ ~Printed("Chart saved as")

\* C2 (the claim as stated): a table with rows that lacks a required
\* column is not plotted, no file is written, and the diagnostic lists the
\* missing columns and the columns present.
C2_ListsMissingColumns ==
    (IsChartOfTable /\ ~empty(call.data) /\ ~HasAllFive(call.data)) =>
        /\ library = <<>>
        /\ Writes(library) = <<>>
        /\ \E i \in DOMAIN console : Range(console[i].args) = MissingNames(call.data)
        /\ \E i \in DOMAIN console :
              /\ console[i].msg = "Available columns:"
              /\ console[i].args = ColumnNames(call.data)

\* C2 (amended): a table with rows that lacks a required column is not
\* plotted, no file is written or changed, and the diagnostic lists all
\* five required columns (missing or not) and the columns present.
C2_ListsRequiredColumns ==
    [][(/\ call'.fn = "create_candlestick_chart"
        /\ call'.data.kind = "table"
        /\ ~empty(call'.data)
        /\ ~HasAllFive(call'.data))
       =>
        /\ ~escaped'
        /\ library' = <<>>
        /\ files' = files
        /\ \E i \in DOMAIN console' :
              /\ console'[i].msg = "Error: Missing one or more required columns for plotting:"
              /\ console'[i].args = <<"Open", "High", "Low", "Close", "Volume">>
        /\ \E i \in DOMAIN console' :
              /\ console'[i].msg = "Available columns:"
              /\ console'[i].args = ColumnNames(call'.data)]_vars

C2_Witness ==
    /\ IsChartOfTable
    /\ Len(call.data.rows) = 2
    /\ MissingNames(call.data) = {"Volume"}
    /\ Printed("Available columns:")

\* C3 (the claim as stated): a table that is empty on entry, or has the
\* five columns and no valid row, is not handed to the chart library, no
\* file is written and a diagnostic is printed.
C3_EmptyIsNotPlotted ==
    (/\ IsChartOfTable
     /\ \/ empty(call.data)
        \/ HasAllFive(call.data) /\ ValidRows(call.data) = {})
    =>
        /\ library = <<>>
        /\ Writes(library) = <<>>
        /\ Printed("No data to plot.") \/ Printed("An error occurred while plotting:")

\* C4: the table handed to mpf.plot holds exactly the valid rows of the
\* input, in the input's order, each once, over the five required columns.
C4_PlotsExactlyValidRows ==
    (IsChartOfTable /\ ~empty(call.data) /\ HasAllFive(call.data)) =>
        /\ Len(library) = 1
        /\ LET d == call.data
               t == library[1].data
           IN  /\ t.cols = [i \in 1..5 |-> Col(required_cols[i], "")]
               /\ \A r \in DOMAIN d.rows :
                     ValidRow(d.rows[r]) <=>
                        \E j \in DOMAIN t.rows : t.rows[j].Date = d.rows[r].Date
               /\ \A j \in DOMAIN t.rows :
                     \E r \in DOMAIN d.rows :
                        /\ t.rows[j].Date = d.rows[r].Date
                        /\ DOMAIN t.rows[j].cells = {Col(f, "") : f \in RequiredNames}
                        /\ \A c \in DOMAIN t.rows[j].cells :
                              /\ t.rows[j].cells[c].k = "num"
                              /\ d.rows[r].cells[c].k = "num" =>
                                    t.rows[j].cells[c] = d.rows[r].cells[c]
               /\ \A j, k \in DOMAIN t.rows : j < k => t.rows[j].Date < t.rows[k].Date

C4_Witness ==
    /\ IsChartOfTable
    /\ Len(call.data.cols) = 6
    /\ Len(call.data.rows) = 2
    /\ call.data.rows[1].cells[Col("Close", "")] = Text(<<"x">>)
    /\ call.data.rows[2].cells[Col("Close", "")] = Text(<<"7">>)
    /\ Len(library) = 1
    /\ Len(library[1].data.rows) = 1
    /\ library[1].data.rows[1].Date = 2
    /\ library[1].data.rows[1].cells[Col("Close", "")] = Num(7)

\* C6 (the claim as stated): no call of the three functions lets an
\* exception escape, whatever another component's result it is handed.
C6_NothingEscapes ==
    call.fn \in {"get_historical_data", "get_ticker_info", "create_candlestick_chart"}
        => ~escaped

\* C7 (the claim as stated): a call with the five columns and a valid row
\* writes exactly one file, "{symbol}_candlestick_chart.png", and changes
\* no other; a call that aborts writes none.
C7_OneWritePerValidCall ==
    [][call'.fn = "create_candlestick_chart" =>
        /\ (/\ call'.data.kind = "table"
            /\ HasAllFive(call'.data)
            /\ ValidRows(call'.data) # {})
           =>
            /\ Writes(library') = <<call'.ticker \o "_candlestick_chart.png">>
            /\ \A f \in DOMAIN files :
                  f # call'.ticker \o "_candlestick_chart.png" => files'[f] = files[f]
        /\ Aborted' => Writes(library') = <<>> /\ files' = files]_vars

\* C7 (amended): such a call writes at most one file: exactly one, the
\* chart of its valid rows at "{symbol}_candlestick_chart.png" in place of
\* what was there, when mpf.plot returns, and none when mpf.plot raises;
\* no other file changes; a call that aborts writes none.
C7_OneWritePerRenderedCall ==
    [][call'.fn = "create_candlestick_chart" =>
        /\ (/\ call'.data.kind = "table"
            /\ HasAllFive(call'.data)
            /\ ValidRows(call'.data) # {})
           =>
            /\ Len(library') = 1
            /\ \A f \in DOMAIN files :
                  f # call'.ticker \o "_candlestick_chart.png" => files'[f] = files[f]
            /\ IF library'[1].outcome = "returns"
               THEN /\ Writes(library') = <<call'.ticker \o "_candlestick_chart.png">>
                    /\ files'[call'.ticker \o "_candlestick_chart.png"] =
                          [title |-> call'.ticker \o " Candlestick Chart",
                           bars |-> Cardinality(ValidRows(call'.data))]
                    /\ ~Aborted'
               ELSE /\ Writes(library') = <<>>
                    /\ files' = files
                    /\ Aborted'
        /\ Aborted' => Writes(library') = <<>> /\ files' = files]_vars

\* A chart of one bar replaces the chart of two bars at the same name.
C7_Witness ==
    /\ IsChartOfTable
    /\ call.ticker = "MSFT"
    /\ HasAllFive(call.data)
    /\ Cardinality(ValidRows(call.data)) = 1
    /\ Writes(library) = <<"MSFT_candlestick_chart.png">>
    /\ files["MSFT_candlestick_chart.png"].bars = 1
    /\ files["AAPL_candlestick_chart.png"].bars = 2

====
